---------------------------- MODULE Spec2Model ----------------------------
(***************************************************************************)
(* A model of the ETL reconciliation and metrics pipeline of               *)
(* src/src/index.js: the numeric parser safeNum, the /load handler (fetch, *)
(* company upsert, year reconciliation, statement upserts, run log) and    *)
(* the /metrics handler, together with fetchStatement of                   *)
(* src/src/services/alphaVantage.js.                                       *)
(*                                                                         *)
(* JavaScript strings are sequences of one-character strings.  A SQL or    *)
(* JSON value that may be null is <<>> (null) or <<n>> (the number n).     *)
(***************************************************************************)
EXTENDS Integers, Sequences, FiniteSets

(***************************************************************************)
(* JavaScript values and strings                                           *)
(***************************************************************************)

\* The JavaScript values undefined and null, a string and a number.
Undefined == [t |-> "undefined"]
JsNull == [t |-> "null"]
Str(s) == [t |-> "string", s |-> s]
Num(n) == [t |-> "number", n |-> n]

Digits == {"0", "1", "2", "3", "4", "5", "6", "7", "8", "9"}

DigitVal(c) ==
  CASE c = "0" -> 0 [] c = "1" -> 1 [] c = "2" -> 2 [] c = "3" -> 3
    [] c = "4" -> 4 [] c = "5" -> 5 [] c = "6" -> 6 [] c = "7" -> 7
    [] c = "8" -> 8 [] c = "9" -> 9

DigitChar(d) ==
  CASE d = 0 -> "0" [] d = 1 -> "1" [] d = 2 -> "2" [] d = 3 -> "3"
    [] d = 4 -> "4" [] d = 5 -> "5" [] d = 6 -> "6" [] d = 7 -> "7"
    [] d = 8 -> "8" [] d = 9 -> "9"

\* The value of a string of decimal digits (0 for the empty string).
RECURSIVE DigitsValue(_)
DigitsValue(s) ==
  IF s = <<>> THEN 0
  ELSE 10 * DigitsValue(SubSeq(s, 1, Len(s) - 1)) + DigitVal(s[Len(s)])

AllDigits(s) == \A i \in 1..Len(s) : s[i] \in Digits

\* String(n) for an integer n: its decimal digits, with a leading "-".
RECURSIVE NatToString(_)
NatToString(n) ==
  IF n < 10 THEN <<DigitChar(n)>>
  ELSE Append(NatToString(n \div 10), DigitChar(n % 10))

NumberToString(n) == IF n < 0 THEN <<"-">> \o NatToString(-n) ELSE NatToString(n)

\* String.prototype.replace(/c/g, r): every occurrence of the character c
\* replaced by the string r.
RECURSIVE ReplaceAll(_, _, _)
ReplaceAll(s, c, r) ==
  IF s = <<>> THEN <<>>
  ELSE (IF Head(s) = c THEN r ELSE <<Head(s)>>) \o ReplaceAll(Tail(s), c, r)

\* String.prototype.trim(): leading and trailing white space removed.
RECURSIVE TrimLeft(_)
TrimLeft(s) ==
  IF s # <<>> /\ Head(s) = " " THEN TrimLeft(Tail(s)) ELSE s

RECURSIVE TrimRight(_)
TrimRight(s) ==
  IF s # <<>> /\ s[Len(s)] = " " THEN TrimRight(SubSeq(s, 1, Len(s) - 1)) ELSE s

Trim(s) == TrimRight(TrimLeft(s))

\* Number(s) for the strings the model uses (digits, "-", ",", "(", ")",
\* " " and letters that begin no numeric literal): white space is trimmed,
\* the empty string is 0, an optional "-" followed by digits is that
\* integer, and anything else is NaN.  [finite |-> FALSE] stands for NaN.
StringToNumber(s) ==
  LET t == Trim(s)
      body == IF t # <<>> /\ Head(t) = "-" THEN Tail(t) ELSE t
      neg == t # <<>> /\ Head(t) = "-"
  IN  IF t = <<>> THEN [finite |-> TRUE, n |-> 0]
      ELSE IF body # <<>> /\ AllDigits(body)
           THEN [finite |-> TRUE,
                 n |-> IF neg THEN 0 - DigitsValue(body) ELSE DigitsValue(body)]
           ELSE [finite |-> FALSE, n |-> 0]

\* String(val) for a string or a number.
JsString(val) == IF val.t = "string" THEN val.s ELSE NumberToString(val.n)

\* A faulty safeNum that strips both parentheses.
safeNumDropsParens(val) ==
  IF val = Undefined \/ val = JsNull THEN 0
  ELSE LET s == Trim(ReplaceAll(ReplaceAll(ReplaceAll(JsString(val),
                     ",", <<>>), "(", <<>>), ")", <<>>))
           n == StringToNumber(s)
       IN  IF n.finite THEN n.n ELSE 0

\* safeNum: undefined and null give 0; otherwise commas are removed, "("
\* becomes "-", ")" is removed, the string is trimmed and converted with
\* Number; a result that is not finite gives 0.
safeNum(val) ==
  IF val = Undefined \/ val = JsNull THEN 0
  ELSE LET s == Trim(ReplaceAll(ReplaceAll(ReplaceAll(JsString(val),
                     ",", <<>>), "(", <<"-">>), ")", <<>>))
           n == StringToNumber(s)
       IN  IF n.finite THEN n.n ELSE 0

\* receiver.replace(...): a TypeError unless the receiver is a string
\* (undefined and null have no properties, a number has no replace).
ReplaceThrows(receiver) == receiver.t # "string"

\* A faulty safeNum that calls val.replace without the guard and String().
safeNumThrowsUnguarded(val) == ReplaceThrows(val)

\* Whether safeNum(val) raises: undefined and null return before any call,
\* and the receiver of replace is String(val); trim and Number never raise.
safeNumThrows(val) ==
  IF val = Undefined \/ val = JsNull THEN FALSE
  ELSE ReplaceThrows(Str(JsString(val)))

\* a ?? b: b when a is undefined or null, and a otherwise.
Coalesce(a, b) == IF a = Undefined \/ a = JsNull THEN b ELSE a

\* The four numeric fields of a reconciled row, read from the income
\* report inc and the balance report bal of one fiscal year.
\* obj.name: undefined when the object has no such property.
Field(obj, name) == IF name \in DOMAIN obj THEN obj[name] ELSE Undefined

revenueOf(inc) ==
  safeNum(Coalesce(Field(inc, "grossProfit"),
                   Coalesce(Field(inc, "totalRevenue"), Num(0))))
netIncomeOf(inc) == safeNum(Coalesce(Field(inc, "netIncome"), Num(0)))
totalAssetsOf(bal) == safeNum(Coalesce(Field(bal, "totalAssets"), Num(0)))
totalLiabilitiesOf(bal) == safeNum(Coalesce(Field(bal, "totalLiabilities"), Num(0)))

(***************************************************************************)
(* Bounds and input sets of the numeric parser                             *)
(***************************************************************************)

\* The longest raw string enumerated exhaustively.
MaxLen == 4

Alphabet == {"1", "2", ",", "(", ")", " ", "-", "N"}

RECURSIVE StringsOfLen(_)
StringsOfLen(n) ==
  IF n = 0 THEN {<<>>}
  ELSE {Append(s, c) : s \in StringsOfLen(n - 1), c \in Alphabet}

BoundedStrings == UNION {StringsOfLen(n) : n \in 0..MaxLen}

\* Longer raw strings of the kind the upstream API and the documentation
\* name: "1,234,567", "(500)", "10,000", "1,000", "50,000", "25,000", "None".
ExampleStrings ==
  { <<"1", ",", "2", "3", "4", ",", "5", "6", "7">>,
    <<"(", "5", "0", "0", ")">>,
    <<"1", "0", ",", "0", "0", "0">>,
    <<"1", ",", "0", "0", "0">>,
    <<"5", "0", ",", "0", "0", "0">>,
    <<"2", "5", ",", "0", "0", "0">>,
    <<"(", "1", ",", "5", "0", "0", ")">>,
    <<"N", "o", "n", "e">> }

RawValues ==
  {Undefined, JsNull, Num(0)} \cup {Str(s) : s \in BoundedStrings \cup ExampleStrings}

\* The places where the handler applies the parser.
ParseSites == {"safeNum", "revenue", "netIncome", "totalAssets", "totalLiabilities"}

(***************************************************************************)
(* The store: the tables companies, financial_statements and etl_runs      *)
(***************************************************************************)

\* A nullable NUMERIC or JSON value: <<>> is null, <<n>> the number n.
Null == <<>>
Some(n) == <<n>>

\* The symbols the handler loads, in the order of its list.
symbols == <<"TEL", "ST", "DD">>

\* The position of a symbol in ORDER BY c.symbol (string order).
SymbolRank(sym) == CASE sym = "DD" -> 1 [] sym = "ST" -> 2 [] sym = "TEL" -> 3

StatementKey(r) == <<r.company_id, r.fiscal_year>>

(***************************************************************************)
(* /metrics                                                                *)
(***************************************************************************)

RECURSIVE GCD(_, _)
GCD(a, b) == IF b = 0 THEN a ELSE GCD(b, a % b)

Abs(n) == IF n < 0 THEN 0 - n ELSE n

\* A JavaScript number that arithmetic produced: a fraction in lowest
\* terms with a positive denominator, an infinity, or NaN.
NaN == [k |-> "nan", num |-> 0, den |-> 0]
Infinity(sign) == [k |-> "inf", num |-> sign, den |-> 0]
Fraction(n, d) ==
  LET g == GCD(Abs(n), Abs(d))
      sg == IF d < 0 THEN 0 - 1 ELSE 1
  IN  [k |-> "fin", num |-> sg * (n \div g), den |-> sg * (d \div g)]

\* a / b for integers a and b: no division raises; x / 0 is an infinity
\* and 0 / 0 is NaN.
JsDivide(a, b) ==
  IF b = 0 THEN (IF a = 0 THEN NaN ELSE Infinity(IF a < 0 THEN 0 - 1 ELSE 1))
  ELSE Fraction(a, b)

\* x * 100.
JsTimes100(x) == IF x.k = "fin" THEN Fraction(x.num * 100, x.den) ELSE x

\* The number a column value converts to in arithmetic: null is 0.
ToNumber(v) == IF v = Null THEN 0 ELSE v[1]

\* The truthiness of a NUMERIC column value as the driver delivers it: as
\* a number (0 is falsy) or as text ("0" is a non-empty string and truthy).
Truthy(v, asText) == v # Null /\ (asText \/ v[1] # 0)

\* JSON.stringify of a computed number: a value that is not finite is
\* written as null.
JsonNumber(x) == IF x.k = "fin" THEN <<x.num, x.den>> ELSE Null

\* A faulty find that takes the preceding row of the same symbol.
FindPrevByAdjacency(arr, i) ==
  IF i > 1 /\ arr[i - 1].symbol = arr[i].symbol THEN <<arr[i - 1]>> ELSE <<>>

\* Array.prototype.find: the first row of arr with row's symbol and the
\* fiscal year before row's, or <<>> when there is none.
FindPrev(arr, i) ==
  LET hits == {j \in 1..Len(arr) :
                 /\ arr[j].symbol = arr[i].symbol
                 /\ arr[j].fiscal_year = arr[i].fiscal_year - 1}
  IN  IF hits = {} THEN <<>>
      ELSE <<arr[CHOOSE j \in hits : \A h \in hits : j <= h]>>

\* A faulty net_margin left as a fraction.
NetMarginAsFraction(row, asText) ==
  IF Truthy(row.revenue, asText)
  THEN <<JsDivide(ToNumber(row.net_income), ToNumber(row.revenue))>>
  ELSE <<>>

\* net_margin of one row, before serialisation (<<>> is null).
NetMargin(row, asText) ==
  IF Truthy(row.revenue, asText)
  THEN <<JsTimes100(JsDivide(ToNumber(row.net_income), ToNumber(row.revenue)))>>
  ELSE <<>>

\* A faulty current_ratio with the operands exchanged.
CurrentRatioInverted(row, asText) ==
  IF Truthy(row.total_liabilities, asText)
  THEN <<JsDivide(ToNumber(row.total_liabilities), ToNumber(row.total_assets))>>
  ELSE <<>>

\* current_ratio of one row, before serialisation.
CurrentRatio(row, asText) ==
  IF Truthy(row.total_liabilities, asText)
  THEN <<JsDivide(ToNumber(row.total_assets), ToNumber(row.total_liabilities))>>
  ELSE <<>>

\* A faulty growth rate that divides by the current figure.
YoyOverCurrent(cur, prev, asText) ==
  IF Truthy(prev, asText)
  THEN <<JsTimes100(JsDivide(ToNumber(cur) - ToNumber(prev), ToNumber(cur)))>>
  ELSE <<>>

\* ((cur - prev) / prev) * 100 when prev is truthy.
Yoy(cur, prev, asText) ==
  IF Truthy(prev, asText)
  THEN <<JsTimes100(JsDivide(ToNumber(cur) - ToNumber(prev), ToNumber(prev)))>>
  ELSE <<>>

\* res.json of one computed field.
JsonField(x) == IF x = <<>> THEN Null ELSE JsonNumber(x[1])

\* The response body of /metrics for the result rows arr.
MetricsOf(arr, asText) ==
  [i \in 1..Len(arr) |->
     LET row == arr[i]
         prev == FindPrev(arr, i)
     IN  [symbol |-> row.symbol,
          name |-> row.name,
          fiscal_year |-> row.fiscal_year,
          net_margin |-> JsonField(NetMargin(row, asText)),
          current_ratio |-> JsonField(CurrentRatio(row, asText)),
          revenue_yoy |->
            IF prev = <<>> THEN Null
            ELSE JsonField(Yoy(row.revenue, prev[1].revenue, asText)),
          net_income_yoy |->
            IF prev = <<>> THEN Null
            ELSE JsonField(Yoy(row.net_income, prev[1].net_income, asText))]]

\* The rows of financial_statements joined with companies, in ascending
\* (symbol, fiscal_year) order.
JoinedRows(comps, stmts) ==
  {[symbol |-> c.symbol, name |-> c.name, fiscal_year |-> f.fiscal_year,
    revenue |-> f.revenue, net_income |-> f.net_income,
    total_assets |-> f.total_assets, total_liabilities |-> f.total_liabilities] :
     <<c, f>> \in {p \in comps \X stmts : p[2].company_id = p[1].id}}

\* A faulty ordering by fiscal year before symbol.
RowBeforeByYear(a, b) ==
  \/ a.fiscal_year < b.fiscal_year
  \/ a.fiscal_year = b.fiscal_year /\ SymbolRank(a.symbol) < SymbolRank(b.symbol)

\* ORDER BY c.symbol, f.fiscal_year: row a sorts before row b.
RowBefore(a, b) ==
  \/ SymbolRank(a.symbol) < SymbolRank(b.symbol)
  \/ a.symbol = b.symbol /\ a.fiscal_year < b.fiscal_year

RECURSIVE SortRows(_)
SortRows(S) ==
  IF S = {} THEN <<>>
  ELSE LET m == CHOOSE r \in S : \A o \in S \ {r} : ~RowBefore(o, r)
       IN  <<m>> \o SortRows(S \ {m})

MetricsQuery(comps, stmts) == SortRows(JoinedRows(comps, stmts))

(***************************************************************************)
(* Upstream responses and fetchStatement                                   *)
(***************************************************************************)

\* The calendar year of the first /load run.
BaseYear == 2024

\* The calendar years in which a run may start.
ClockYears == {BaseYear, BaseYear + 1}

\* The fiscal years of the upstream reports: one before the trailing
\* window of BaseYear, the window's first year and the year after it.
FiscalYears == {BaseYear - 4, BaseYear - 3, BaseYear - 2}

\* The two editions of a company's figures that upstream may serve.
Editions == {1, 2}

DateOf(year) == Str(NumberToString(year) \o <<"-", "1", "2", "-", "3", "1">>)

Text(n) == Str(NumberToString(n))

\* "10,000", "1,000", "2,000", "12,000", "(500)", "50,000", "25,000",
\* "60,000" and "None" as raw field values.
Thousands(n) == Str(NumberToString(n) \o <<",", "0", "0", "0">>)

IncomeReport(year, ed) ==
  IF ed = 1
  THEN [fiscalDateEnding |-> DateOf(year),
        totalRevenue |-> Thousands(10), netIncome |-> Thousands(1)]
  ELSE [fiscalDateEnding |-> DateOf(year), grossProfit |-> Thousands(2),
        totalRevenue |-> Thousands(12),
        netIncome |-> Str(<<"(", "5", "0", "0", ")">>)]

BalanceReport(year, ed) ==
  IF ed = 1
  THEN [fiscalDateEnding |-> DateOf(year),
        totalAssets |-> Thousands(50), totalLiabilities |-> Thousands(25)]
  ELSE [fiscalDateEnding |-> DateOf(year), totalAssets |-> Thousands(60),
        totalLiabilities |-> Str(<<"N", "o", "n", "e">>)]

\* A report without a fiscalDateEnding.
UndatedReport == [netIncome |-> Thousands(1)]

\* The years Y, most recent first.
RECURSIVE Descending(_)
Descending(Y) ==
  IF Y = {} THEN <<>>
  ELSE LET y == CHOOSE m \in Y : \A o \in Y : o <= m
       IN  <<y>> \o Descending(Y \ {y})

OtherEdition(ed) == 3 - ed

\* The annualReports arrays upstream may answer with for edition ed: the
\* reports of any set of years, a series that names a year twice, and a
\* series with an undated report.
IncomeSeries(ed) ==
  {[i \in 1..Cardinality(Y) |-> IncomeReport(Descending(Y)[i], ed)] : Y \in SUBSET FiscalYears}
    \cup {<<IncomeReport(BaseYear - 2, OtherEdition(ed)), IncomeReport(BaseYear - 2, ed)>>,
          <<UndatedReport, IncomeReport(BaseYear - 3, ed)>>}

BalanceSeries(ed) ==
  {[i \in 1..Cardinality(Y) |-> BalanceReport(Descending(Y)[i], ed)] :
     Y \in SUBSET {y \in FiscalYears : y >= BaseYear - 3}}
    \cup {<<BalanceReport(BaseYear - 2, OtherEdition(ed)), BalanceReport(BaseYear - 2, ed)>>}

\* What the HTTP request of fetchStatement can end in: a body with a Note,
\* a body with Information, a body without annualReports, a body with
\* annualReports (possibly empty), or a failed request.
UpstreamAnswers(series) ==
  {[kind |-> "note"], [kind |-> "information"], [kind |-> "nodata"],
   [kind |-> "error"]}
    \cup {[kind |-> "data", annualReports |-> a] : a \in series}

\* A faulty fetchStatement that hands a rate-limit body back as it came.
fetchStatementPassesNote(answer) ==
  IF answer.kind = "note" THEN [Note |-> "rate limit"]
  ELSE IF answer.kind \in {"information", "nodata", "error"}
  THEN [annualReports |-> <<>>]
  ELSE IF answer.annualReports = <<>> THEN [annualReports |-> <<>>]
  ELSE [annualReports |-> answer.annualReports]

\* A faulty fetchStatement that returns null when the request fails.
fetchStatementReturnsNull(answer) ==
  IF answer.kind = "error" THEN [failed |-> TRUE]
  ELSE IF answer.kind \in {"note", "information", "nodata"}
  THEN [annualReports |-> <<>>]
  ELSE IF answer.annualReports = <<>> THEN [annualReports |-> <<>>]
  ELSE [annualReports |-> answer.annualReports]

\* fetchStatement: every degraded answer becomes {annualReports: []}.
fetchStatement(answer) ==
  IF answer.kind \in {"note", "information", "nodata", "error"}
  THEN [annualReports |-> <<>>]
  ELSE IF answer.annualReports = <<>> THEN [annualReports |-> <<>>]
  ELSE [annualReports |-> answer.annualReports]

(***************************************************************************)
(* State                                                                   *)
(***************************************************************************)

VARIABLES
  companies,      \* the rows of table companies: [id, symbol, name]
  companiesSeq,   \* the last value of the SERIAL sequence of companies.id
  statements,     \* the rows of table financial_statements
  etlRuns,        \* the number of rows of table etl_runs
  pc,             \* where the /load handler stands ("idle": no request)
  runs,           \* the /load requests started so far
  currentYear,    \* new Date().getFullYear() of the request
  symIdx,         \* the position in symbols of the company being loaded
  edition,        \* the edition of the figures upstream serves in the run
  income,         \* the income statement fetched for it (<<>>: not yet)
  balance,        \* the balance sheet fetched for it (<<>>: not yet)
  companyId,      \* the id its company upsert returned (0: none)
  pendingYears,   \* the keys of incomeByYear not yet iterated
  response,       \* what the request answered ("": nothing yet)
  attempted,      \* history: the years whose upsert this company issued
  failed,         \* history: those of them whose upsert threw
  runFailed,      \* history: some statement upsert of this run threw
  lastUpsert,     \* history: key -> the row of its last successful upsert
  metricsRes,     \* the response of the last /metrics request
  raw,            \* the raw value handed to the numeric parser
  site,           \* where the parser is applied to it
  parsed,         \* the parser's result (<<>>: not applied yet)
  threw,          \* the parser raised an exception
  completed,      \* history: the /load requests that have answered
  recordFailed,   \* history: the etl_runs insert of this run threw
  storeLog,       \* history: "none", "allFailed" or "someOk": the store
                  \*   operations of this run so far
  startStore,     \* history: companies, statements and the number of
                  \*   etl_runs rows when the run began
  incomeKind,     \* history: the kind of upstream answer behind income
  balanceKind,    \* history: the kind of upstream answer behind balance
  script,         \* the upstream answers a repeated request meets again
                  \*   (NoScript: upstream answers freely)
  failedRuns,     \* history: the runs in which a company or statement
                  \*   upsert threw
  inFlight,       \* the upstream requests issued and not yet answered
  parked          \* the locals of a second /load invocation while the
                  \*   first one runs (Node runs one continuation at a time)

dbVars == <<companies, companiesSeq, statements, etlRuns>>
loadVars == <<pc, runs, currentYear, symIdx, edition, income, balance,
              companyId, pendingYears, response>>
historyVars == <<attempted, failed, runFailed, lastUpsert>>
parserVars == <<raw, site, parsed, threw>>
auditVars == <<completed, recordFailed, storeLog, startStore, incomeKind,
               balanceKind>>
replayVars == <<script, failedRuns>>
vars == <<dbVars, loadVars, historyVars, metricsRes, parserVars, auditVars,
          replayVars, inFlight, parked>>

\* The number of /load requests the model follows.
MaxRuns == 1

(***************************************************************************)
(* /load: the reconciliation of one company                                *)
(***************************************************************************)

yearLimit == currentYear - 3

\* parseInt(s): the integer that the longest prefix of s made of an
\* optional sign and digits denotes, after leading white space; <<>> is NaN.
RECURSIVE DigitPrefix(_)
DigitPrefix(s) ==
  IF s # <<>> /\ Head(s) \in Digits THEN <<Head(s)>> \o DigitPrefix(Tail(s)) ELSE <<>>

parseInt(s) ==
  LET t == TrimLeft(s)
      neg == t # <<>> /\ Head(t) = "-"
      d == DigitPrefix(IF neg THEN Tail(t) ELSE t)
  IN  IF d = <<>> THEN <<>>
      ELSE IF neg THEN <<0 - DigitsValue(d)>> ELSE <<DigitsValue(d)>>

\* String.prototype.slice(0, 4).
Slice4(s) == SubSeq(s, 1, IF Len(s) < 4 THEN Len(s) ELSE 4)

\* The fiscal year of a report: the first four characters of its
\* fiscalDateEnding through parseInt, <<>> when the date is missing or
\* empty (null) and when parseInt gives NaN.
FiscalYearOf(r) ==
  LET d == Field(r, "fiscalDateEnding")
  IN  IF d = Undefined \/ d = JsNull \/ d = Str(<<>>) THEN <<>>
      ELSE parseInt(Slice4(d.s))

\* A faulty lookup that keeps the first report of a year.
BuildByYearFirstWins(reports) ==
  LET dated == {i \in 1..Len(reports) :
                  FiscalYearOf(reports[i]) # <<>> /\ FiscalYearOf(reports[i])[1] # 0}
      keyOf(i) == NumberToString(FiscalYearOf(reports[i])[1])
  IN  [k \in {keyOf(i) : i \in dated} |->
         reports[CHOOSE i \in dated :
                   keyOf(i) = k /\ \A j \in dated : keyOf(j) = k => i <= j]]

\* The lookup a forEach over the reports builds: obj[fy] = r for every
\* report whose fiscal year fy is truthy, a later report replacing an
\* earlier one of the same year.  The keys are the years as strings.
RECURSIVE BuildByYear(_)
BuildByYear(reports) ==
  IF Len(reports) = 0 THEN [k \in {} |-> Undefined]
  ELSE LET before == BuildByYear(SubSeq(reports, 1, Len(reports) - 1))
           r == reports[Len(reports)]
           fy == FiscalYearOf(r)
       IN  IF fy # <<>> /\ fy[1] # 0
           THEN [k \in DOMAIN before \cup {NumberToString(fy[1])} |->
                   IF k = NumberToString(fy[1]) THEN r ELSE before[k]]
           ELSE before

incomeByYear == BuildByYear(income.annualReports)

\* A faulty balance lookup built from the income series.
balanceByYearFromIncome == BuildByYear(income.annualReports)

balanceByYear == BuildByYear(balance.annualReports)

\* Object.keys of a lookup whose keys are years: integer keys come in
\* ascending numeric order.
RECURSIVE KeysAscending(_)
KeysAscending(K) ==
  IF K = {} THEN <<>>
  ELSE LET m == CHOOSE k \in K : \A o \in K : DigitsValue(k) <= DigitsValue(o)
       IN  <<m>> \o KeysAscending(K \ {m})

ObjectKeys(obj) == KeysAscending(DOMAIN obj)

\* obj[year]: the property named String(year), or undefined.
Lookup(obj, year) ==
  IF NumberToString(year) \in DOMAIN obj THEN obj[NumberToString(year)] ELSE Undefined

\* A faulty filter that also passes over the limit year.
BelowLimitInclusive(year, limit) == year <= limit

\* The trailing-window filter: a year below the limit is passed over.
BelowLimit(year, limit) == year < limit

\* Whether the loop passes over the key yearStr without a write.
SkipsYear(yearStr) ==
  LET year == parseInt(yearStr)
  IN  \/ year = <<>>
      \/ BelowLimit(year[1], yearLimit)
      \/ Lookup(balanceByYear, year[1]) = Undefined

\* The parameters of the statement upsert of the key yearStr.
StatementRow(yearStr) ==
  LET year == parseInt(yearStr)[1]
      inc == Lookup(incomeByYear, year)
      bal == Lookup(balanceByYear, year)
  IN  [company_id |-> companyId, fiscal_year |-> year,
       revenue |-> Some(revenueOf(inc)), net_income |-> Some(netIncomeOf(inc)),
       total_assets |-> Some(totalAssetsOf(bal)),
       total_liabilities |-> Some(totalLiabilitiesOf(bal))]

\* A faulty upsert that merges: the balance columns keep their old values.
UpsertStatementKeepsBalance(stmts, row) ==
  IF \E r \in stmts : StatementKey(r) = StatementKey(row)
  THEN {IF StatementKey(r) = StatementKey(row)
        THEN [r EXCEPT !.revenue = row.revenue, !.net_income = row.net_income]
        ELSE r : r \in stmts}
  ELSE stmts \cup {row}

\* A faulty upsert that replaces all rows of the company by the new row.
UpsertStatementRefreshes(stmts, row) ==
  {r \in stmts : r.company_id # row.company_id} \cup {row}

\* A faulty upsert that leaves the row of a known key as it is.
UpsertStatementDoNothing(stmts, row) ==
  IF \E r \in stmts : StatementKey(r) = StatementKey(row)
  THEN stmts
  ELSE stmts \cup {row}

\* INSERT INTO financial_statements ... ON CONFLICT (company_id,
\* fiscal_year) DO UPDATE SET the four numeric columns.
UpsertStatement(stmts, row) ==
  IF \E r \in stmts : StatementKey(r) = StatementKey(row)
  THEN {IF StatementKey(r) = StatementKey(row)
        THEN [r EXCEPT !.revenue = row.revenue, !.net_income = row.net_income,
                       !.total_assets = row.total_assets,
                       !.total_liabilities = row.total_liabilities]
        ELSE r : r \in stmts}
  ELSE stmts \cup {row}

\* A faulty RETURNING id that hands back the drawn sequence value.
UpsertCompanyIdFromSequence(comps, seq, sym) == seq + 1

\* INSERT INTO companies ... ON CONFLICT (symbol) DO UPDATE SET name ...
\* RETURNING id: the id the statement returns and the table after it.  The
\* SERIAL default draws a sequence value whether or not the row is new.
UpsertCompanyId(comps, seq, sym) ==
  IF \E c \in comps : c.symbol = sym
  THEN (CHOOSE c \in comps : c.symbol = sym).id
  ELSE seq + 1

\* A faulty company upsert that replaces the row of a known symbol by a
\* new one with a fresh id.
UpsertCompanyReinserts(comps, seq, sym, name) ==
  {c \in comps : c.symbol # sym} \cup {[id |-> seq + 1, symbol |-> sym, name |-> name]}

UpsertCompany(comps, seq, sym, name) ==
  IF \E c \in comps : c.symbol = sym
  THEN {IF c.symbol = sym THEN [c EXCEPT !.name = name] ELSE c : c \in comps}
  ELSE comps \cup {[id |-> seq + 1, symbol |-> sym, name |-> name]}

\* !x?.annualReports: the result has no annualReports (an empty array is
\* truthy).
NoApiData(x) == "annualReports" \notin DOMAIN x

NotFetched == [pending |-> TRUE]

\* Upstream is not held to a script.
NoScript == [free |-> TRUE]

(***************************************************************************)
(* /load: the handler, one action per await                                *)
(***************************************************************************)

symbol == symbols[symIdx]

\* The request fetchStatement(sym, type) sends upstream.
Request(sym, type) == [symbol |-> sym, type |-> type]

\* The requests in flight once the request r has been answered and the
\* handler has gone on to issue the requests next.
Answered(r, next) == (inFlight \ {r}) \cup next

\* The first request of the symbol after the current one, if there is one.
NextSymbolRequest ==
  IF symIdx < Len(symbols) THEN {Request(symbols[symIdx + 1], "income")} ELSE {}

\* The record of the run's store operations after one more of them.
AfterStoreOk(log) == "someOk"
AfterStoreFailure(log) == IF log = "someOk" THEN "someOk" ELSE "allFailed"

\* A request arrives: the calendar year is read and the loop over the
\* symbols begins.
StartLoad ==
  /\ pc = "idle"
  /\ runs < MaxRuns
  /\ runs' = runs + 1
  /\ \E y \in ClockYears : y >= currentYear /\ currentYear' = y
  /\ \E ed \in Editions : edition' = ed
  /\ symIdx' = 1
  /\ pc' = "fetchIncome"
  /\ response' = ""
  /\ runFailed' = FALSE
  /\ UNCHANGED <<dbVars, income, balance, companyId, pendingYears,
                 attempted, failed, lastUpsert, metricsRes, parserVars>>
  /\ recordFailed' = FALSE
  /\ storeLog' = "none"
  /\ startStore' = <<companies, statements, etlRuns>>
  /\ UNCHANGED <<completed, incomeKind, balanceKind>>
  /\ UNCHANGED replayVars
  /\ inFlight' = inFlight \cup {Request(symbols[1], "income")}
  /\ UNCHANGED parked

\* A faulty handler that issues the balance and cash-flow requests together.
FetchIncomeIssuesBoth ==
  /\ pc = "fetchIncome"
  /\ \E answer \in UpstreamAnswers(IncomeSeries(edition)) :
       /\ income' = fetchStatement(answer)
       /\ incomeKind' = answer.kind
  /\ pc' = "fetchBalance"
  /\ UNCHANGED <<dbVars, runs, currentYear, symIdx, edition, balance, companyId,
                 pendingYears, response, historyVars, metricsRes, parserVars>>
  /\ UNCHANGED <<completed, recordFailed, storeLog, startStore, balanceKind>>
  /\ UNCHANGED replayVars
  /\ inFlight' = Answered(Request(symbol, "income"),
                        {Request(symbol, "balance"), Request(symbol, "cashflow")})
  /\ UNCHANGED parked

\* await fetchStatement(symbol, "income")
FetchIncome ==
  /\ pc = "fetchIncome"
  /\ \E answer \in UpstreamAnswers(IncomeSeries(edition)) :
       /\ income' = fetchStatement(answer)
       /\ incomeKind' = answer.kind
  /\ pc' = "fetchBalance"
  /\ UNCHANGED <<dbVars, runs, currentYear, symIdx, edition, balance, companyId,
                 pendingYears, response, historyVars, metricsRes, parserVars>>
  /\ UNCHANGED <<completed, recordFailed, storeLog, startStore, balanceKind>>
  /\ UNCHANGED replayVars
  /\ inFlight' = Answered(Request(symbol, "income"), {Request(symbol, "balance")})
  /\ UNCHANGED parked

\* await fetchStatement(symbol, "balance")
FetchBalance ==
  /\ pc = "fetchBalance"
  /\ \E answer \in UpstreamAnswers(BalanceSeries(edition)) :
       /\ balance' = fetchStatement(answer)
       /\ balanceKind' = answer.kind
  /\ pc' = "fetchCashflow"
  /\ UNCHANGED <<dbVars, runs, currentYear, symIdx, edition, income, companyId,
                 pendingYears, response, historyVars, metricsRes, parserVars>>
  /\ UNCHANGED <<completed, recordFailed, storeLog, startStore, incomeKind>>
  /\ UNCHANGED replayVars
  /\ inFlight' = Answered(Request(symbol, "balance"), {Request(symbol, "cashflow")})
  /\ UNCHANGED parked

\* await fetchStatement(symbol, "cashflow"), whose result is not used, and
\* the test of the two results that follows it: its continue goes to the
\* next symbol past the pause at the end of the loop body.
FetchCashflow ==
  /\ pc = "fetchCashflow"
  /\ \E answer \in UpstreamAnswers({<<>>}) :
       fetchStatement(answer) = [annualReports |-> <<>>]
  /\ IF NoApiData(income) \/ NoApiData(balance)
     THEN /\ symIdx' = symIdx + 1
          /\ pc' = IF symIdx < Len(symbols) THEN "fetchIncome" ELSE "recordRun"
          /\ income' = NotFetched
          /\ balance' = NotFetched
     ELSE /\ pc' = "upsertCompany"
          /\ UNCHANGED <<symIdx, income, balance>>
  /\ UNCHANGED <<dbVars, runs, currentYear, edition, companyId,
                 pendingYears, response, historyVars, metricsRes, parserVars>>
  /\ IF NoApiData(income) \/ NoApiData(balance)
     THEN incomeKind' = "" /\ balanceKind' = ""
     ELSE UNCHANGED <<incomeKind, balanceKind>>
  /\ UNCHANGED <<completed, recordFailed, storeLog, startStore>>
  /\ UNCHANGED replayVars
  /\ inFlight' = Answered(Request(symbol, "cashflow"),
                        IF NoApiData(income) \/ NoApiData(balance)
                        THEN NextSymbolRequest ELSE {})
  /\ UNCHANGED parked

\* The company upsert returns its row's id; the lookups are built and the
\* loop over Object.keys(incomeByYear) begins.
UpsertCompanyOk ==
  /\ pc = "upsertCompany"
  /\ companies' = UpsertCompany(companies, companiesSeq, symbol, symbol)
  /\ companyId' = UpsertCompanyId(companies, companiesSeq, symbol)
  /\ companiesSeq' = companiesSeq + 1
  /\ pendingYears' = ObjectKeys(incomeByYear)
  /\ pc' = "years"
  /\ UNCHANGED <<statements, etlRuns, runs, currentYear, symIdx, edition,
                 income, balance, response, historyVars, metricsRes, parserVars>>
  /\ storeLog' = AfterStoreOk(storeLog)
  /\ UNCHANGED <<completed, recordFailed, startStore, incomeKind, balanceKind>>
  /\ UNCHANGED replayVars
  /\ UNCHANGED inFlight
  /\ UNCHANGED parked

\* A faulty handler that goes on to the year loop when the company upsert
\* threw, with no id in hand.
UpsertCompanyFailsGoesOn ==
  /\ pc = "upsertCompany"
  /\ pc' = "years"
  /\ pendingYears' = ObjectKeys(incomeByYear)
  /\ UNCHANGED <<dbVars, runs, currentYear, symIdx, edition, companyId,
                 income, balance, response, historyVars, metricsRes, parserVars>>
  /\ storeLog' = AfterStoreFailure(storeLog)
  /\ UNCHANGED <<completed, recordFailed, startStore, incomeKind, balanceKind>>
  /\ failedRuns' = failedRuns \cup {runs}
  /\ UNCHANGED script
  /\ UNCHANGED inFlight
  /\ UNCHANGED parked

\* The company upsert throws: the catch of the symbol's try logs it.
UpsertCompanyFails ==
  /\ pc = "upsertCompany"
  /\ pc' = "delay"
  /\ income' = NotFetched
  /\ balance' = NotFetched
  /\ UNCHANGED <<dbVars, runs, currentYear, symIdx, edition, companyId,
                 pendingYears, response, historyVars, metricsRes, parserVars>>
  /\ storeLog' = AfterStoreFailure(storeLog)
  /\ incomeKind' = ""
  /\ balanceKind' = ""
  /\ UNCHANGED <<completed, recordFailed, startStore>>
  /\ failedRuns' = failedRuns \cup {runs}
  /\ UNCHANGED script
  /\ UNCHANGED inFlight
  /\ UNCHANGED parked

\* A faulty skip that leaves the loop.
SkipYearBreaks ==
  /\ pc = "years"
  /\ pendingYears # <<>>
  /\ SkipsYear(Head(pendingYears))
  /\ pendingYears' = <<>>
  /\ UNCHANGED <<dbVars, pc, runs, currentYear, symIdx, edition, income,
                 balance, companyId, response, historyVars, metricsRes,
                 parserVars>>
  /\ UNCHANGED auditVars
  /\ UNCHANGED replayVars
  /\ UNCHANGED inFlight
  /\ UNCHANGED parked

\* A key outside the window or without a balance report: continue.
SkipYear ==
  /\ pc = "years"
  /\ pendingYears # <<>>
  /\ SkipsYear(Head(pendingYears))
  /\ pendingYears' = Tail(pendingYears)
  /\ UNCHANGED <<dbVars, pc, runs, currentYear, symIdx, edition, income,
                 balance, companyId, response, historyVars, metricsRes,
                 parserVars>>
  /\ UNCHANGED auditVars
  /\ UNCHANGED replayVars
  /\ UNCHANGED inFlight
  /\ UNCHANGED parked

\* The statement upsert of a qualifying year succeeds.
UpsertStatementOk ==
  /\ pc = "years"
  /\ pendingYears # <<>>
  /\ ~SkipsYear(Head(pendingYears))
  /\ LET row == StatementRow(Head(pendingYears))
     IN  /\ statements' = UpsertStatement(statements, row)
         /\ attempted' = attempted \cup {row.fiscal_year}
         /\ lastUpsert' =
              {r \in lastUpsert : StatementKey(r) # StatementKey(row)} \cup {row}
  /\ pendingYears' = Tail(pendingYears)
  /\ UNCHANGED <<companies, companiesSeq, etlRuns, pc, runs, currentYear,
                 symIdx, edition, income, balance, companyId, response, failed,
                 runFailed, metricsRes, parserVars>>
  /\ storeLog' = AfterStoreOk(storeLog)
  /\ UNCHANGED <<completed, recordFailed, startStore, incomeKind, balanceKind>>
  /\ UNCHANGED replayVars
  /\ UNCHANGED inFlight
  /\ UNCHANGED parked

\* A faulty catch that leaves the loop.
UpsertStatementFailsAborts ==
  /\ pc = "years"
  /\ pendingYears # <<>>
  /\ ~SkipsYear(Head(pendingYears))
  /\ attempted' = attempted \cup {parseInt(Head(pendingYears))[1]}
  /\ failed' = failed \cup {parseInt(Head(pendingYears))[1]}
  /\ runFailed' = TRUE
  /\ pendingYears' = <<>>
  /\ UNCHANGED <<dbVars, pc, runs, currentYear, symIdx, edition, income,
                 balance, companyId, response, lastUpsert, metricsRes,
                 parserVars>>
  /\ storeLog' = AfterStoreFailure(storeLog)
  /\ UNCHANGED <<completed, recordFailed, startStore, incomeKind, balanceKind>>
  /\ failedRuns' = failedRuns \cup {runs}
  /\ UNCHANGED script
  /\ UNCHANGED inFlight
  /\ UNCHANGED parked

\* The statement upsert of a qualifying year throws: the catch around the
\* query logs it and the loop goes on.
UpsertStatementFails ==
  /\ pc = "years"
  /\ pendingYears # <<>>
  /\ ~SkipsYear(Head(pendingYears))
  /\ attempted' = attempted \cup {parseInt(Head(pendingYears))[1]}
  /\ failed' = failed \cup {parseInt(Head(pendingYears))[1]}
  /\ runFailed' = TRUE
  /\ pendingYears' = Tail(pendingYears)
  /\ UNCHANGED <<dbVars, pc, runs, currentYear, symIdx, edition, income,
                 balance, companyId, response, lastUpsert, metricsRes,
                 parserVars>>
  /\ storeLog' = AfterStoreFailure(storeLog)
  /\ UNCHANGED <<completed, recordFailed, startStore, incomeKind, balanceKind>>
  /\ failedRuns' = failedRuns \cup {runs}
  /\ UNCHANGED script
  /\ UNCHANGED inFlight
  /\ UNCHANGED parked

\* The loop over the years ends, and with it the block that holds the
\* company's fetched data.
EndYears ==
  /\ pc = "years"
  /\ pendingYears = <<>>
  /\ pc' = "delay"
  /\ income' = NotFetched
  /\ balance' = NotFetched
  /\ companyId' = 0
  /\ attempted' = {}
  /\ failed' = {}
  /\ UNCHANGED <<dbVars, runs, currentYear, symIdx, edition, pendingYears,
                 response, runFailed, lastUpsert, metricsRes, parserVars>>
  /\ incomeKind' = ""
  /\ balanceKind' = ""
  /\ UNCHANGED <<completed, recordFailed, storeLog, startStore>>
  /\ UNCHANGED replayVars
  /\ UNCHANGED inFlight
  /\ UNCHANGED parked

\* The 15 s pause after a symbol, then the next symbol or the run log.
Delay ==
  /\ pc = "delay"
  /\ symIdx' = symIdx + 1
  /\ pc' = IF symIdx < Len(symbols) THEN "fetchIncome" ELSE "recordRun"
  /\ UNCHANGED <<dbVars, runs, currentYear, edition, income, balance,
                 companyId, pendingYears, response, historyVars, metricsRes,
                 parserVars>>
  /\ UNCHANGED auditVars
  /\ UNCHANGED replayVars
  /\ inFlight' = inFlight \cup NextSymbolRequest
  /\ UNCHANGED parked

\* A faulty run log that keeps a single row and overwrites it.
RecordRunOkOverwrites ==
  /\ pc = "recordRun"
  /\ etlRuns' = 1
  /\ pc' = "respond"
  /\ UNCHANGED <<companies, companiesSeq, statements, runs, currentYear,
                 symIdx, edition, income, balance, companyId, pendingYears,
                 response, historyVars, metricsRes, parserVars>>
  /\ storeLog' = AfterStoreOk(storeLog)
  /\ UNCHANGED <<completed, recordFailed, startStore, incomeKind, balanceKind>>
  /\ UNCHANGED replayVars
  /\ UNCHANGED inFlight
  /\ UNCHANGED parked

\* INSERT INTO etl_runs succeeds.
RecordRunOk ==
  /\ pc = "recordRun"
  /\ etlRuns' = etlRuns + 1
  /\ pc' = "respond"
  /\ UNCHANGED <<companies, companiesSeq, statements, runs, currentYear,
                 symIdx, edition, income, balance, companyId, pendingYears,
                 response, historyVars, metricsRes, parserVars>>
  /\ storeLog' = AfterStoreOk(storeLog)
  /\ UNCHANGED <<completed, recordFailed, startStore, incomeKind, balanceKind>>
  /\ UNCHANGED replayVars
  /\ UNCHANGED inFlight
  /\ UNCHANGED parked

\* A faulty handler without the catch around the insert: the error reaches
\* the handler's outer catch, which answers 500 "ETL failed".
RecordRunFailsRethrows ==
  /\ pc = "recordRun"
  /\ pc' = "idle"
  /\ response' = "ETL failed"
  /\ UNCHANGED <<dbVars, runs, currentYear, symIdx, edition, income, balance,
                 companyId, pendingYears, historyVars, metricsRes, parserVars>>
  /\ recordFailed' = TRUE
  /\ storeLog' = AfterStoreFailure(storeLog)
  /\ completed' = completed + 1
  /\ UNCHANGED <<startStore, incomeKind, balanceKind>>
  /\ UNCHANGED replayVars
  /\ UNCHANGED inFlight
  /\ UNCHANGED parked

\* A faulty handler that undoes the run's statement writes when the
\* etl_runs insert throws.
RecordRunFailsRollsBack ==
  /\ pc = "recordRun"
  /\ pc' = "respond"
  /\ statements' = startStore[2]
  /\ UNCHANGED <<companies, companiesSeq, etlRuns, runs, currentYear, symIdx,
                 edition, income, balance, companyId, pendingYears, response,
                 historyVars, metricsRes, parserVars>>
  /\ recordFailed' = TRUE
  /\ storeLog' = AfterStoreFailure(storeLog)
  /\ UNCHANGED <<completed, startStore, incomeKind, balanceKind>>
  /\ UNCHANGED replayVars
  /\ UNCHANGED inFlight
  /\ UNCHANGED parked

\* INSERT INTO etl_runs throws: its catch logs it.
RecordRunFails ==
  /\ pc = "recordRun"
  /\ pc' = "respond"
  /\ UNCHANGED <<dbVars, runs, currentYear, symIdx, edition, income, balance,
                 companyId, pendingYears, response, historyVars, metricsRes,
                 parserVars>>
  /\ recordFailed' = TRUE
  /\ storeLog' = AfterStoreFailure(storeLog)
  /\ UNCHANGED <<completed, startStore, incomeKind, balanceKind>>
  /\ UNCHANGED replayVars
  /\ UNCHANGED inFlight
  /\ UNCHANGED parked

\* res.send("Data loaded")
Respond ==
  /\ pc = "respond"
  /\ response' = "Data loaded"
  /\ pc' = "idle"
  /\ UNCHANGED <<dbVars, runs, currentYear, symIdx, edition, income, balance,
                 companyId, pendingYears, historyVars, metricsRes, parserVars>>
  /\ completed' = completed + 1
  /\ UNCHANGED <<recordFailed, storeLog, startStore, incomeKind, balanceKind>>
  /\ UNCHANGED replayVars
  /\ UNCHANGED inFlight
  /\ UNCHANGED parked

\* The store an earlier run leaves when upstream answers every request
\* with the full series of edition 1 in the year BaseYear and no statement
\* fails (the tables are created IF NOT EXISTS and outlive the process).
LoadedCompanies ==
  {[id |-> i, symbol |-> symbols[i], name |-> symbols[i]] : i \in 1..Len(symbols)}

LoadedStatements ==
  {[company_id |-> i, fiscal_year |-> y,
    revenue |-> Some(revenueOf(IncomeReport(y, 1))),
    net_income |-> Some(netIncomeOf(IncomeReport(y, 1))),
    total_assets |-> Some(totalAssetsOf(BalanceReport(y, 1))),
    total_liabilities |-> Some(totalLiabilitiesOf(BalanceReport(y, 1)))] :
     i \in 1..Len(symbols), y \in {f \in FiscalYears : f >= BaseYear - 3}}

\* The variables that belong to one /load invocation.
Locals ==
  <<pc, currentYear, symIdx, edition, income, balance, companyId,
    pendingYears, response, attempted, failed, runFailed, recordFailed,
    storeLog, startStore, incomeKind, balanceKind, inFlight>>

\* The locals of an invocation that has not been requested.
IdleLocals ==
  <<"idle", BaseYear, 0, 0, NotFetched, NotFetched, 0, <<>>, "", {}, {},
    FALSE, FALSE, "none", <<companies, statements, etlRuns>>, "", "", {}>>

\* The parser has been handed nothing.
ParserIdle == raw = Undefined /\ site = "" /\ parsed = <<>> /\ threw = FALSE

\* No /load request in flight and no /metrics response yet.
HandlersIdle ==
  /\ pc = "idle"
  /\ runs = 0
  /\ currentYear = BaseYear
  /\ symIdx = 0
  /\ edition = 0
  /\ income = NotFetched
  /\ balance = NotFetched
  /\ companyId = 0
  /\ pendingYears = <<>>
  /\ response = ""
  /\ attempted = {}
  /\ failed = {}
  /\ runFailed = FALSE
  /\ metricsRes = [sent |-> FALSE]
  /\ recordFailed = FALSE
  /\ storeLog = "none"
  /\ incomeKind = ""
  /\ balanceKind = ""
  /\ failedRuns = {}
  /\ inFlight = {}

\* No request in flight, nothing parsed, no metrics computed.
Quiescent ==
  /\ ParserIdle
  /\ HandlersIdle

\* The server starts on an empty store or on the store of an earlier run.
Init ==
  /\ Quiescent
  /\ \/ /\ companies = {}
        /\ companiesSeq = 0
        /\ statements = {}
        /\ etlRuns = 0
     \/ /\ companies = LoadedCompanies
        /\ companiesSeq = Len(symbols)
        /\ statements = LoadedStatements
        /\ etlRuns = 1
  /\ lastUpsert = statements
  /\ completed = etlRuns
  /\ startStore = <<companies, statements, etlRuns>>
  /\ parked = IdleLocals
  /\ script = NoScript

Next ==
  \/ StartLoad
  \/ FetchIncome
  \/ FetchBalance
  \/ FetchCashflow
  \/ UpsertCompanyOk
  \/ UpsertCompanyFails
  \/ SkipYear
  \/ UpsertStatementOk
  \/ UpsertStatementFails
  \/ EndYears
  \/ Delay
  \/ RecordRunOk
  \/ RecordRunFails
  \/ Respond

Spec == Init /\ [][Next]_vars

(***************************************************************************)
(* Properties of /load                                                     *)
(***************************************************************************)

\* The fetched result res holds a report whose date lies in fiscal year y.
HasReport(res, y) ==
  \E i \in 1..Len(res.annualReports) :
    Field(res.annualReports[i], "fiscalDateEnding") = DateOf(y)

\* The loop over the company's years has run to its end.
LoopEnded == pc = "years" /\ pendingYears = <<>>

\* The row of the company being loaded for fiscal year y.
RowOf(y) == {r \in statements : StatementKey(r) = <<companyId, y>>}

\* The fiscal years the reconciliation has to write: the income years in
\* the trailing window that have a balance report.
Reconcilable ==
  {y \in FiscalYears :
     HasReport(income, y) /\ HasReport(balance, y) /\ y >= currentYear - 3}

\* C1: when the loop over a company's years has ended, the years whose
\* upsert was issued are exactly the income years in the trailing window
\* that have a balance report, and every one of them whose upsert did not
\* throw has its row.
C1_ReconciledYears ==
  LoopEnded =>
    /\ attempted = Reconcilable
    /\ \A y \in attempted \ failed : RowOf(y) # {}

\* C1 witness: an income year without a balance report was passed over and
\* a later year was still written.
C1_Witness ==
  /\ LoopEnded
  /\ currentYear = BaseYear
  /\ HasReport(income, BaseYear - 3)
  /\ ~HasReport(balance, BaseYear - 3)
  /\ attempted = {BaseYear - 2}
  /\ failed = {}

\* C2: no upsert is issued for a fiscal year below the current year minus
\* three, and the year equal to that limit is written when both of its
\* reports are there; in 2024 the limit is 2021 and 2020 is left out.
C2_TrailingWindow ==
  /\ \A y \in attempted : y >= currentYear - 3
  /\ LoopEnded /\ HasReport(income, currentYear - 3)
       /\ HasReport(balance, currentYear - 3)
       => (currentYear - 3) \in attempted
  /\ currentYear = 2024 => yearLimit = 2021 /\ 2020 \notin attempted

\* C2 witness: the year below the limit was in the income series and only
\* the limit year was written.
C2_Witness ==
  /\ LoopEnded
  /\ HasReport(income, currentYear - 4)
  /\ HasReport(income, currentYear - 3)
  /\ (currentYear - 3) \in attempted
  /\ (currentYear - 4) \notin attempted

\* C3: financial_statements holds at most one row per (company_id,
\* fiscal_year), and its rows are exactly the rows of the last successful
\* upsert of each key, all four numeric fields included.
C3_LastWriteWins ==
  /\ \A r1 \in statements : \A r2 \in statements :
       StatementKey(r1) = StatementKey(r2) => r1 = r2
  /\ statements = lastUpsert

\* C3 witness: a row that an earlier run had written carries other values
\* after a second upsert of its key.
C3_Witness ==
  /\ companiesSeq > Len(symbols)
  /\ \E r \in statements : \E l \in LoadedStatements :
       /\ StatementKey(r) = StatementKey(l)
       /\ r.revenue # l.revenue
       /\ r.net_income # l.net_income
       /\ r.total_assets # l.total_assets
       /\ r.total_liabilities # l.total_liabilities

\* C8: when a statement upsert has thrown, the loop still issues the upsert
\* of every other reconcilable year of the company, the rows of the years
\* that did not throw are in the table with the values of this run, and the
\* run reaches its end only after the last symbol.
C8_FailureDoesNotAbort ==
  /\ LoopEnded /\ failed # {} =>
       /\ attempted = Reconcilable
       /\ \A y \in attempted \ failed :
            StatementRow(NumberToString(y)) \in statements
  /\ runFailed /\ pc \in {"recordRun", "respond"} => symIdx = Len(symbols) + 1
  /\ runFailed /\ pc = "idle" => response = "Data loaded" /\ symIdx = Len(symbols) + 1

\* C8 witness: the upsert of the first year threw and the next year of the
\* same company was written.
C8_Witness ==
  /\ LoopEnded
  /\ failed = {BaseYear - 3}
  /\ attempted = {BaseYear - 3, BaseYear - 2}
  /\ StatementRow(NumberToString(BaseYear - 2)) \in statements

\* A fetch of the company being loaded came back degraded or empty.
Degraded ==
  \/ income # NotFetched /\ income.annualReports = <<>>
  \/ balance # NotFetched /\ balance.annualReports = <<>>

\* C9: once a fetch of a company came back degraded or empty, no step of
\* that company's processing changes financial_statements, every such step
\* leads on towards the pause that ends the company, and that pause hands
\* over to the next symbol (or to the run log after the last one).
C9_DegradedWritesNothing ==
  [][/\ (Degraded =>
            /\ statements' = statements
            /\ pc' \in {"fetchBalance", "fetchCashflow", "upsertCompany", "years", "delay"})
      /\ (pc = "delay" =>
            /\ statements' = statements
            /\ symIdx' = symIdx + 1
            /\ pc' = IF symIdx < Len(symbols) THEN "fetchIncome" ELSE "recordRun")]_vars

\* C9 witness: the balance sheet came back empty for a company that has
\* income reports in the window and rows from an earlier run.
C9_Witness ==
  /\ LoopEnded
  /\ balance.annualReports = <<>>
  /\ HasReport(income, BaseYear - 2)
  /\ currentYear = BaseYear
  /\ RowOf(BaseYear - 2) # {}

(***************************************************************************)
(* /metrics: the handler and its inputs                                    *)
(***************************************************************************)

\* GET /metrics: the query, the map over its rows and res.json.  The
\* driver hands the NUMERIC columns over as numbers or as text, depending
\* on its type parsers.
MetricsRequest ==
  /\ \E asText \in BOOLEAN :
       metricsRes' = [sent |-> TRUE,
                      body |-> MetricsOf(MetricsQuery(companies, statements), asText)]
  /\ UNCHANGED <<dbVars, loadVars, historyVars, parserVars>>
  /\ UNCHANGED auditVars
  /\ UNCHANGED replayVars
  /\ UNCHANGED inFlight
  /\ UNCHANGED parked

\* The most rows of financial_statements a /metrics request is checked on.
MaxRows == 2

\* The keys of the rows: three consecutive years of the company DD (id 3)
\* and the middle year of the company ST (id 2).
MetricKeys ==
  {<<3, BaseYear - 3>>, <<3, BaseYear - 2>>, <<3, BaseYear - 1>>, <<2, BaseYear - 2>>}

\* The values of the four nullable NUMERIC columns of a row: any of four
\* revenues with net income, assets and liabilities all present and
\* non-zero, or with a zero or a null among them.
MetricValues ==
  {[revenue |-> rv, net_income |-> o[1], total_assets |-> o[2], total_liabilities |-> o[3]] :
     rv \in {Null, Some(0), Some(100), Some(120)},
     o \in {<<Some(10), Some(50), Some(25)>>, <<Some(0), Some(50), Some(0)>>,
            <<Null, Some(50), Null>>, <<Some(10), Null, Some(25)>>}}

\* The table with the rows of the keys K and the values v[k].
MetricStore(K, v) ==
  {[company_id |-> k[1], fiscal_year |-> k[2], revenue |-> v[k].revenue,
    net_income |-> v[k].net_income, total_assets |-> v[k].total_assets,
    total_liabilities |-> v[k].total_liabilities] : k \in K}

\* The store holds at most MaxRows rows, one per key, with any values the
\* columns admit.
MetricsInit ==
  /\ Quiescent
  /\ companies = LoadedCompanies
  /\ companiesSeq = Len(symbols)
  /\ \E K \in {S \in SUBSET MetricKeys : Cardinality(S) <= MaxRows} :
       \E v \in [K -> MetricValues] : statements = MetricStore(K, v)
  /\ etlRuns = 1
  /\ lastUpsert = statements
  /\ completed = etlRuns
  /\ startStore = <<companies, statements, etlRuns>>
  /\ parked = IdleLocals
  /\ script = NoScript

MetricsNext == MetricsRequest

SpecMetrics == MetricsInit /\ [][MetricsNext]_vars

(***************************************************************************)
(* Properties of /metrics                                                  *)
(***************************************************************************)

Stored == JoinedRows(companies, statements)

\* The stored row a row m of the response was computed from.
StoredRow(m) ==
  CHOOSE r \in Stored : r.symbol = m.symbol /\ r.fiscal_year = m.fiscal_year

\* The stored rows of m's company for the fiscal year before m's.
PriorYearRows(m) ==
  {r \in Stored : r.symbol = m.symbol /\ r.fiscal_year = m.fiscal_year - 1}

Present(v) == v # Null /\ v[1] # 0

\* The response value x is the number n / d (d # 0).
IsQuotient(x, n, d) == x # Null /\ x[2] # 0 /\ x[1] * d = n * x[2]

ResponseRows == {metricsRes.body[i] : i \in 1..Len(metricsRes.body)}

\* C4: net_margin is net_income / revenue * 100 when the row's revenue is
\* present and non-zero and null otherwise (revenue 0 gives null); raw
\* "10,000" and "1,000" give 10.
C4_NetMargin ==
  /\ metricsRes.sent =>
       \A m \in ResponseRows :
         LET r == StoredRow(m)
         IN  IF Present(r.revenue)
             THEN IsQuotient(m.net_margin, ToNumber(r.net_income) * 100, r.revenue[1])
             ELSE m.net_margin = Null
  /\ \A asText \in BOOLEAN :
       JsonField(NetMargin([revenue |-> Some(revenueOf(IncomeReport(BaseYear, 1))),
                            net_income |-> Some(netIncomeOf(IncomeReport(BaseYear, 1)))],
                           asText)) = <<10, 1>>

\* C4 witness: a response with a row of revenue 0 and a null margin and a
\* row of revenue 100, net income 10 and margin 10.
C4_Witness ==
  /\ metricsRes.sent
  /\ \E m \in ResponseRows : StoredRow(m).revenue = Some(0) /\ m.net_margin = Null
  /\ \E m \in ResponseRows :
       /\ StoredRow(m).revenue = Some(100)
       /\ StoredRow(m).net_income = Some(10)
       /\ m.net_margin = <<10, 1>>

\* C5: revenue_yoy is (revenue - prev.revenue) / prev.revenue * 100 when a
\* row of the same company for the year before exists with revenue present
\* and non-zero, and null otherwise; net_income_yoy likewise on net_income.
C5_YearOverYear ==
  metricsRes.sent =>
    \A m \in ResponseRows :
      LET r == StoredRow(m)
          P == PriorYearRows(m)
      IN  /\ Cardinality(P) <= 1
          /\ IF \E p \in P : Present(p.revenue)
             THEN \A p \in P :
                    IsQuotient(m.revenue_yoy,
                               (ToNumber(r.revenue) - p.revenue[1]) * 100, p.revenue[1])
             ELSE m.revenue_yoy = Null
          /\ IF \E p \in P : Present(p.net_income)
             THEN \A p \in P :
                    IsQuotient(m.net_income_yoy,
                               (ToNumber(r.net_income) - p.net_income[1]) * 100,
                               p.net_income[1])
             ELSE m.net_income_yoy = Null

\* C5 witness: revenue 100 then 120 in consecutive years: null for the
\* first year and 20 for the second.
C5_Witness ==
  /\ metricsRes.sent
  /\ Len(metricsRes.body) = 2
  /\ metricsRes.body[1].symbol = metricsRes.body[2].symbol
  /\ metricsRes.body[2].fiscal_year = metricsRes.body[1].fiscal_year + 1
  /\ StoredRow(metricsRes.body[1]).revenue = Some(100)
  /\ StoredRow(metricsRes.body[2]).revenue = Some(120)
  /\ metricsRes.body[1].revenue_yoy = Null
  /\ metricsRes.body[1].net_income_yoy = Null
  /\ metricsRes.body[2].revenue_yoy = <<20, 1>>

\* The orders in which n rows can stand in an array.
Orders(n) == {f \in [1..n -> 1..n] : \A i \in 1..n : \A j \in 1..n : f[i] = f[j] => i = j}

\* C6: a row whose predecessor in (symbol, fiscal_year) order is of another
\* company or lies two or more years back has both yoy fields null, and the
\* yoy fields of every row are the same in whatever order the rows stand.
C6_PriorYearByKey ==
  metricsRes.sent =>
    LET body == metricsRes.body
        rows == MetricsQuery(companies, statements)
    IN  /\ \A i \in 1..Len(body) :
             (\/ i = 1
              \/ body[i - 1].symbol # body[i].symbol
              \/ body[i - 1].fiscal_year < body[i].fiscal_year - 1)
               => body[i].revenue_yoy = Null /\ body[i].net_income_yoy = Null
        /\ \A f \in Orders(Len(rows)) : \A asText \in BOOLEAN :
             LET shuffled == MetricsOf([i \in 1..Len(rows) |-> rows[f[i]]], asText)
             IN  \A i \in 1..Len(rows) : shuffled[i] = body[f[i]]

\* C6 witness: two rows of one company two years apart, the earlier with
\* revenue and net income present and non-zero.
C6_Witness ==
  /\ metricsRes.sent
  /\ Len(metricsRes.body) = 2
  /\ metricsRes.body[1].symbol = metricsRes.body[2].symbol
  /\ metricsRes.body[2].fiscal_year = metricsRes.body[1].fiscal_year + 2
  /\ Present(StoredRow(metricsRes.body[1]).revenue)
  /\ Present(StoredRow(metricsRes.body[1]).net_income)
  /\ metricsRes.body[2].revenue_yoy = Null
  /\ metricsRes.body[2].net_income_yoy = Null

\* C7: current_ratio is total_assets / total_liabilities when the row's
\* total_liabilities is present and non-zero and null otherwise.
C7_CurrentRatio ==
  metricsRes.sent =>
    \A m \in ResponseRows :
      LET r == StoredRow(m)
      IN  IF Present(r.total_liabilities)
          THEN IsQuotient(m.current_ratio, ToNumber(r.total_assets),
                          r.total_liabilities[1])
          ELSE m.current_ratio = Null

\* C7 witness: a response with a row of liabilities 0 and a null ratio and
\* a row of assets 50, liabilities 25 and ratio 2.
C7_Witness ==
  /\ metricsRes.sent
  /\ \E m \in ResponseRows :
       StoredRow(m).total_liabilities = Some(0) /\ m.current_ratio = Null
  /\ \E m \in ResponseRows :
       /\ StoredRow(m).total_assets = Some(50)
       /\ StoredRow(m).total_liabilities = Some(25)
       /\ m.current_ratio = <<2, 1>>

(***************************************************************************)
(* The numeric parser on its own                                           *)
(***************************************************************************)

\* The report in which the field that a parse site reads holds the raw
\* value (an undefined value is an absent field).
ReportWith(name, value) == [f \in {name} |-> value]

\* The number the handler obtains at a parse site for the raw value.
ParseAt(where, value) ==
  CASE where = "safeNum" -> safeNum(value)
    [] where = "revenue" -> revenueOf(ReportWith("totalRevenue", value))
    [] where = "netIncome" -> netIncomeOf(ReportWith("netIncome", value))
    [] where = "totalAssets" -> totalAssetsOf(ReportWith("totalAssets", value))
    [] where = "totalLiabilities" ->
         totalLiabilitiesOf(ReportWith("totalLiabilities", value))

\* The value safeNum is handed at a parse site: the raw value itself, or
\* the field of the report through ?? 0.
ArgumentAt(where, value) ==
  IF where = "safeNum" THEN value ELSE Coalesce(value, Num(0))

\* One evaluation of the parser at a parse site.
Parse ==
  /\ parsed = <<>>
  /\ ~threw
  /\ IF safeNumThrows(ArgumentAt(site, raw))
     THEN threw' = TRUE /\ parsed' = <<>>
     ELSE threw' = FALSE /\ parsed' = <<ParseAt(site, raw)>>
  /\ UNCHANGED <<dbVars, loadVars, historyVars, metricsRes, raw, site>>
  /\ UNCHANGED auditVars
  /\ UNCHANGED replayVars
  /\ UNCHANGED inFlight
  /\ UNCHANGED parked

ParserInit ==
  /\ HandlersIdle
  /\ companies = {}
  /\ companiesSeq = 0
  /\ statements = {}
  /\ etlRuns = 0
  /\ lastUpsert = {}
  /\ completed = 0
  /\ startStore = <<companies, statements, etlRuns>>
  /\ parked = IdleLocals
  /\ raw \in RawValues
  /\ site \in ParseSites
  /\ parsed = <<>>
  /\ threw = FALSE
  /\ script = NoScript

ParserNext == Parse

SpecParser == ParserInit /\ [][ParserNext]_vars

\* The number a string of digits and thousands separators denotes.
RECURSIVE GroupedValue(_)
GroupedValue(s) ==
  IF s = <<>> THEN 0
  ELSE IF s[Len(s)] = "," THEN GroupedValue(SubSeq(s, 1, Len(s) - 1))
  ELSE 10 * GroupedValue(SubSeq(s, 1, Len(s) - 1)) + DigitVal(s[Len(s)])

\* A string of digits and thousands separators with at least one digit.
Grouped(s) ==
  /\ \A i \in 1..Len(s) : s[i] \in Digits \cup {","}
  /\ \E i \in 1..Len(s) : s[i] \in Digits

\* A string that is empty or that no reading makes a number: it holds no
\* digit, or it holds a letter.
Unparseable(s) ==
  \/ \A i \in 1..Len(s) : s[i] \notin Digits
  \/ \E i \in 1..Len(s) : s[i] \notin Digits \cup {",", "(", ")", " ", "-"}

\* C10: at every parse site a string of digits with thousands separators
\* parses to the number it denotes ("1,234,567" to 1234567), such a string
\* in parentheses to its negation ("(500)" to -500), and an absent, empty
\* or unparseable value to 0.
C10_SafeNum ==
  parsed # <<>> =>
    /\ raw \in {Undefined, JsNull} => parsed[1] = 0
    /\ raw.t = "string" =>
         /\ Grouped(raw.s) => parsed[1] = GroupedValue(raw.s)
         /\ Len(raw.s) >= 2 /\ raw.s[1] = "(" /\ raw.s[Len(raw.s)] = ")"
              /\ Grouped(SubSeq(raw.s, 2, Len(raw.s) - 1))
              => parsed[1] = 0 - GroupedValue(SubSeq(raw.s, 2, Len(raw.s) - 1))
         /\ Unparseable(raw.s) => parsed[1] = 0
         /\ raw.s = <<"1", ",", "2", "3", "4", ",", "5", "6", "7">> => parsed[1] = 1234567
         /\ raw.s = <<"(", "5", "0", "0", ")">> => parsed[1] = 0 - 500

\* C10 witness: "(1,500)" read as total liabilities gives -1500.
C10_Witness ==
  /\ raw = Str(<<"(", "1", ",", "5", "0", "0", ")">>)
  /\ site = "totalLiabilities"
  /\ parsed = <<0 - 1500>>

\* C11: the parser is total and pure: applied to any raw value (a string,
\* null, undefined or a number) at any parse site it raises nothing, returns
\* one integer, and changes neither the store nor the /load handler's state.
C11_SafeNumTotal ==
  [][parsed = <<>> /\ ~threw =>
       /\ ~threw'
       /\ Len(parsed') = 1
       /\ parsed'[1] \in Int
       /\ UNCHANGED <<dbVars, loadVars, historyVars, metricsRes, raw, site>>]_vars

\* C11 witness: the letters "N(-)" read as net income return 0.
C11_Witness ==
  /\ raw = Str(<<"N", "(", "-", ")">>)
  /\ site = "netIncome"
  /\ parsed = <<0>>
  /\ ~threw

(***************************************************************************)
(* Further properties of /load                                             *)
(***************************************************************************)

\* C12: the revenue written for a year is the parsed totalRevenue of the
\* year's income report whenever the report has that field, also when it
\* has a grossProfit as well.
C12_PrimaryRevenueFirst ==
  LoopEnded =>
    \A y \in attempted \ failed :
      LET inc == Lookup(incomeByYear, y)
      IN  Field(inc, "totalRevenue") # Undefined =>
            \A r \in RowOf(y) : r.revenue = Some(safeNum(Field(inc, "totalRevenue")))

C14_RunLogFailureKeepsRows ==
  [][recordFailed' =>
       /\ companies' = companies
       /\ statements' = statements
       /\ statements' = lastUpsert'
       /\ pc' \in {"respond", "idle"}]_vars

\* C14 witness: the insert threw after the run had written rows that the
\* store did not hold before, and the request has answered.
C14_Witness ==
  /\ recordFailed
  /\ pc = "idle"
  /\ startStore[1] = {}
  /\ startStore[2] = {}
  /\ Cardinality(companies) = Len(symbols)
  /\ Cardinality(statements) >= 2

C16_StoreOutageAborts ==
  pc = "idle" /\ runs > 0 =>
    IF storeLog = "allFailed"
    THEN response = "ETL failed" /\ symIdx <= Len(symbols)
    ELSE response = "Data loaded"

\* The companies row of a symbol in a companies table.
CompanyOf(comps, sym) == {c \in comps : c.symbol = sym}

\* C17: companies never holds two rows of one symbol; a company upsert for
\* a symbol that is there returns the id the row already had and adds no
\* row, an upsert for a new symbol adds one row with the id it returns, a
\* row never changes its id or symbol, and every statement row belongs to
\* a company, so rows of earlier runs stay with their company.
C17_StableCompanyId ==
  [][/\ \A c \in companies' : \A d \in companies' : c.symbol = d.symbol => c = d
     /\ \A c \in companies : \E d \in companies' : d.id = c.id /\ d.symbol = c.symbol
     /\ pc = "upsertCompany" /\ pc' = "years" =>
          /\ \E c \in companies' : c.symbol = symbol /\ c.id = companyId'
          /\ \A c \in CompanyOf(companies, symbol) :
               /\ companyId' = c.id
               /\ Cardinality(companies') = Cardinality(companies)
          /\ CompanyOf(companies, symbol) = {} =>
               Cardinality(companies') = Cardinality(companies) + 1
     /\ \A r \in statements' : \E c \in companies' : c.id = r.company_id
     /\ \A r \in startStore[2] : \E q \in statements' : \E c \in companies' :
          /\ StatementKey(q) = StatementKey(r)
          /\ c.id = r.company_id
          /\ c \in startStore[1]]_vars

\* C17 witness: the upsert of a symbol loaded by an earlier run returned
\* the old id although the sequence had moved on.
C17_Witness ==
  /\ pc = "years"
  /\ symIdx = 2
  /\ companyId = 2
  /\ companiesSeq = Len(symbols) + 2
  /\ [id |-> 2, symbol |-> "ST", name |-> "ST"] \in startStore[1]
  /\ Cardinality(companies) = Len(symbols)

\* C18: a companies row is only created for a symbol after one of its
\* fetches brought data: while every fetch of a symbol without a row came
\* back degraded or empty, no step adds a companies row.
C18_NoRowWithoutData ==
  [][pc = "upsertCompany"
       /\ CompanyOf(companies, symbol) = {}
       /\ income.annualReports = <<>>
       /\ balance.annualReports = <<>>
       => companies' = companies]_vars

\* The three degraded kinds of upstream answer: a rate-limit Note, an
\* Information message, and a body without annualReports.
DegradedKinds == {"note", "information", "nodata"}

\* The fetched result res holds zero yearly records.
ZeroRecords(res) == "annualReports" \in DOMAIN res /\ res.annualReports = <<>>

\* C19: after a Note, an Information or a body with missing or empty
\* annualReports, the fetched result is the same value, zero yearly
\* records, so the handler's state does not depend on which of them came;
\* a company with such a result has no statement upsert issued, its rows
\* are those the request found, and the request answers "Data loaded".
C19_DegradedAlike ==
  /\ incomeKind \in DegradedKinds => ZeroRecords(income)
  /\ balanceKind \in DegradedKinds => ZeroRecords(balance)
  /\ (incomeKind \in DegradedKinds \/ balanceKind \in DegradedKinds)
       /\ pc = "years" => /\ attempted = {}
          /\ {r \in statements : r.company_id = companyId} \subseteq startStore[2]
  /\ pc = "idle" /\ runs > 0 => response = "Data loaded"

\* C19 witness: the income statement came as Information and the balance
\* sheet as a Note, and the company's loop ended without an upsert.
C19_Witness ==
  /\ LoopEnded
  /\ incomeKind = "information"
  /\ balanceKind = "note"
  /\ attempted = {}

(***************************************************************************)
(* /load requested again with the same upstream answers                    *)
(***************************************************************************)

\* The requests a replay follows: a first one and its repetitions.
ReplayRuns == MaxRuns + 1

\* What upstream serves in a replay: one edition, and one answer for the
\* income statement and one for the balance sheet of every symbol, the
\* same in every request.
Scripts ==
  UNION {{[edition |-> ed, income |-> a, balance |-> b] :
            a \in UpstreamAnswers(IncomeSeries(ed)),
            b \in UpstreamAnswers(BalanceSeries(ed))} : ed \in Editions}

\* A request arrives; a repetition falls in the calendar year of the first
\* request and meets the same edition.
ReplayStart ==
  /\ pc = "idle"
  /\ runs < ReplayRuns
  /\ runs' = runs + 1
  /\ IF runs = 0
     THEN \E y \in ClockYears : currentYear' = y
     ELSE currentYear' = currentYear
  /\ edition' = script.edition
  /\ symIdx' = 1
  /\ pc' = "fetchIncome"
  /\ response' = ""
  /\ runFailed' = FALSE
  /\ recordFailed' = FALSE
  /\ storeLog' = "none"
  /\ startStore' = <<companies, statements, etlRuns>>
  /\ UNCHANGED <<dbVars, income, balance, companyId, pendingYears,
                 attempted, failed, lastUpsert, metricsRes, parserVars,
                 completed, incomeKind, balanceKind, replayVars>>
  /\ inFlight' = inFlight \cup {Request(symbols[1], "income")}
  /\ UNCHANGED parked

\* await fetchStatement(symbol, "income") meets the script's answer.
ReplayFetchIncome ==
  /\ FetchIncome
  /\ income' = fetchStatement(script.income)
  /\ incomeKind' = script.income.kind

\* await fetchStatement(symbol, "balance") meets the script's answer.
ReplayFetchBalance ==
  /\ FetchBalance
  /\ balance' = fetchStatement(script.balance)
  /\ balanceKind' = script.balance.kind

\* The store operations of a replay: in each request at most one of them
\* throws.
NoFaultYet == runs \notin failedRuns /\ ~recordFailed

ReplayUpsertCompanyFails == NoFaultYet /\ UpsertCompanyFails

ReplayUpsertStatementFails == NoFaultYet /\ UpsertStatementFails

ReplayRecordRunFails == NoFaultYet /\ RecordRunFails

\* The server starts on an empty store and upstream holds to a script.
ReplayInit ==
  /\ Quiescent
  /\ companies = {}
  /\ companiesSeq = 0
  /\ statements = {}
  /\ etlRuns = 0
  /\ lastUpsert = statements
  /\ completed = etlRuns
  /\ startStore = <<companies, statements, etlRuns>>
  /\ parked = IdleLocals
  /\ script \in Scripts

ReplayNext ==
  \/ ReplayStart
  \/ ReplayFetchIncome
  \/ ReplayFetchBalance
  \/ FetchCashflow
  \/ UpsertCompanyOk
  \/ ReplayUpsertCompanyFails
  \/ SkipYear
  \/ UpsertStatementOk
  \/ ReplayUpsertStatementFails
  \/ EndYears
  \/ Delay
  \/ RecordRunOk
  \/ ReplayRecordRunFails
  \/ Respond

SpecReplay == ReplayInit /\ [][ReplayNext]_vars

\* A repetition of /load has answered.
Repeated == pc = "idle" /\ runs >= 2

ResponseKey(m, comps) ==
  <<(CHOOSE c \in comps : c.symbol = m.symbol).id, m.fiscal_year>>

\* C21: a /metrics request changes no row of companies,
\* financial_statements or etl_runs, and its response holds exactly one row
\* for every stored statement row, in ascending (symbol, fiscal_year)
\* order.
C21_MetricsReadsOnly ==
  [][/\ dbVars' = dbVars
     /\ metricsRes'.sent
     /\ LET body == metricsRes'.body
        IN  /\ Len(body) = Cardinality(statements)
            /\ {ResponseKey(body[i], companies) : i \in 1..Len(body)}
                 = {StatementKey(f) : f \in statements}
            /\ \A i \in 1..Len(body) : \A j \in 1..Len(body) :
                 i < j =>
                   \/ SymbolRank(body[i].symbol) < SymbolRank(body[j].symbol)
                   \/ /\ body[i].symbol = body[j].symbol
                      /\ body[i].fiscal_year < body[j].fiscal_year]_vars

\* C21 witness: a response of two rows in which the earlier symbol comes
\* first although its fiscal year is the later one.
C21_Witness ==
  /\ metricsRes.sent
  /\ Len(metricsRes.body) = 2
  /\ SymbolRank(metricsRes.body[1].symbol) < SymbolRank(metricsRes.body[2].symbol)
  /\ metricsRes.body[1].fiscal_year > metricsRes.body[2].fiscal_year

(***************************************************************************)
(* The order of the steps of /load                                         *)
(***************************************************************************)

\* C22: at most one upstream request is in flight; the income, balance and
\* cash-flow requests of a company are issued in that order, each when the
\* one before it has been answered; the first request of a company is
\* issued when none is in flight and the company before it has ended its
\* writes; and no store write happens while a request is in flight.
C22_OneFetchAtATime ==
  [][/\ Cardinality(inFlight') <= 1
     /\ \A r \in inFlight' \ inFlight :
          \/ /\ r.type = "income"
             /\ inFlight = {}
             /\ pc \in {"idle", "delay"}
          \/ /\ r.type = "balance"
             /\ inFlight = {Request(r.symbol, "income")}
          \/ /\ r.type = "cashflow"
             /\ inFlight = {Request(r.symbol, "balance")}
     /\ inFlight # {} => dbVars' = dbVars]_vars

\* C22 witness: the cash-flow request of the second company is in flight
\* after the run has written a row of the first.
C22_Witness ==
  /\ inFlight = {Request(symbols[2], "cashflow")}
  /\ pc = "fetchCashflow"
  /\ \E r \in statements \ startStore[2] :
       \E c \in CompanyOf(companies, symbols[1]) : r.company_id = c.id

\* The positions of the handler inside the processing of one company,
\* after its requests have been issued.
Processing == {"fetchCashflow", "upsertCompany", "years"}

ConcurrentLoads == MaxRuns + 1

\* The annualReports of every fiscal year in edition ed.
FullIncome(ed) == [i \in 1..Cardinality(FiscalYears) |-> IncomeReport(Descending(FiscalYears)[i], ed)]

FullBalance(ed) ==
  LET Y == {y \in FiscalYears : y >= BaseYear - 3}
  IN  [i \in 1..Cardinality(Y) |-> BalanceReport(Descending(Y)[i], ed)]

\* A request arrives while the handler of this invocation has not run.
\* Both requests arrive in the year BaseYear, and upstream serves the
\* first of them edition 1 and the second edition 2, so that the rows of
\* the two invocations differ in every field.
ConcurrentStart ==
  /\ pc = "idle"
  /\ response = ""
  /\ runs < ConcurrentLoads
  /\ runs' = runs + 1
  /\ currentYear' = currentYear
  /\ edition' = IF runs = 0 THEN 1 ELSE 2
  /\ symIdx' = 1
  /\ pc' = "fetchIncome"
  /\ runFailed' = FALSE
  /\ recordFailed' = FALSE
  /\ storeLog' = "none"
  /\ startStore' = <<companies, statements, etlRuns>>
  /\ inFlight' = inFlight \cup {Request(symbols[1], "income")}
  /\ UNCHANGED <<dbVars, income, balance, companyId, pendingYears, response,
                 attempted, failed, lastUpsert, metricsRes, parserVars,
                 completed, incomeKind, balanceKind, replayVars, parked>>

\* The income request is answered with every year.
ConcurrentFetchIncome ==
  /\ FetchIncome
  /\ income'.annualReports = FullIncome(edition)

\* The balance request is answered with every year of the window.
ConcurrentFetchBalance ==
  /\ FetchBalance
  /\ balance'.annualReports = FullBalance(edition)

\* The event loop turns from the continuation of one invocation to a
\* continuation of the other: every await is a point where it may.
Switch ==
  /\ parked' = Locals
  /\ pc' = parked[1]
  /\ currentYear' = parked[2]
  /\ symIdx' = parked[3]
  /\ edition' = parked[4]
  /\ income' = parked[5]
  /\ balance' = parked[6]
  /\ companyId' = parked[7]
  /\ pendingYears' = parked[8]
  /\ response' = parked[9]
  /\ attempted' = parked[10]
  /\ failed' = parked[11]
  /\ runFailed' = parked[12]
  /\ recordFailed' = parked[13]
  /\ storeLog' = parked[14]
  /\ startStore' = parked[15]
  /\ incomeKind' = parked[16]
  /\ balanceKind' = parked[17]
  /\ inFlight' = parked[18]
  /\ UNCHANGED <<dbVars, runs, lastUpsert, metricsRes, parserVars, completed,
                 replayVars>>

\* The server starts on an empty store.
ConcurrentInit ==
  /\ Quiescent
  /\ companies = {}
  /\ companiesSeq = 0
  /\ statements = {}
  /\ etlRuns = 0
  /\ lastUpsert = statements
  /\ completed = etlRuns
  /\ startStore = <<companies, statements, etlRuns>>
  /\ parked = IdleLocals
  /\ script = NoScript

ConcurrentNext ==
  \/ ConcurrentStart
  \/ ConcurrentFetchIncome
  \/ ConcurrentFetchBalance
  \/ FetchCashflow
  \/ UpsertCompanyOk
  \/ SkipYear
  \/ UpsertStatementOk
  \/ EndYears
  \/ Delay
  \/ RecordRunOk
  \/ Respond
  \/ Switch

SpecConcurrent == ConcurrentInit /\ [][ConcurrentNext]_vars

\* C24: with two invocations at once, financial_statements never holds two
\* rows of one (company, fiscal_year) nor companies two rows of one symbol
\* or id, and every statement row is, in all four fields, the row of the
\* upsert executed last on its key, whichever invocation issued it.
C24_RowLevelLastWriteWins ==
  /\ \A r \in statements : \A q \in statements :
       StatementKey(r) = StatementKey(q) => r = q
  /\ \A c \in companies : \A d \in companies :
       c.symbol = d.symbol \/ c.id = d.id => c = d
  /\ \A r \in statements :
       \E u \in lastUpsert :
         /\ StatementKey(u) = StatementKey(r)
         /\ u.revenue = r.revenue
         /\ u.net_income = r.net_income
         /\ u.total_assets = r.total_assets
         /\ u.total_liabilities = r.total_liabilities
  /\ \A u \in lastUpsert : \E r \in statements : StatementKey(r) = StatementKey(u)

\* C24 witness: both invocations stand in the year loop of the same
\* company, and a row this invocation has written holds the figures of
\* the edition the other one met.
C24_Witness ==
  /\ pc = "years"
  /\ parked[1] = "years"
  /\ parked[3] = symIdx
  /\ parked[4] = OtherEdition(edition)
  /\ \E r \in statements :
       /\ r.company_id = companyId
       /\ r.fiscal_year \in attempted
       /\ r.revenue = Some(revenueOf(IncomeReport(r.fiscal_year, parked[4])))

(***************************************************************************)
(* Progress of /load                                                       *)
(***************************************************************************)

\* The steps the server takes by itself once they are possible: the store
\* answers a statement or fails it, the 15 s timer fires, the handler
\* sends its response.
ServerStep ==
  \/ UpsertCompanyOk
  \/ UpsertCompanyFails
  \/ SkipYear
  \/ UpsertStatementOk
  \/ UpsertStatementFails
  \/ EndYears
  \/ Delay
  \/ RecordRunOk
  \/ RecordRunFails
  \/ Respond

\* /load with its scheduling: a possible step of the server is taken in
\* the end.  The continuation of a fetch runs when upstream answers or the
\* request fails; fetch(url) is called without a timeout, so nothing makes
\* it run when upstream stays silent.
SpecLive == Spec /\ WF_vars(ServerStep)

\* C25: every /load request that has started sends its response in the
\* end, whatever upstream does.
C25_EventuallyResponds == (pc # "idle") ~> (pc = "idle" /\ response # "")

(***************************************************************************)
(* Series that name a year more than once                                  *)
(***************************************************************************)

\* The positions in the fetched result res of the reports of fiscal year y.
ReportsOf(res, y) ==
  {i \in 1..Len(res.annualReports) : FiscalYearOf(res.annualReports[i]) = <<y>>}

\* The report of fiscal year y that comes last in res.
LastReport(res, y) ==
  res.annualReports[CHOOSE i \in ReportsOf(res, y) : \A j \in ReportsOf(res, y) : j <= i]

\* C26: a year's upsert that succeeded left exactly one row of that year,
\* computed from the last income report and the last balance report of the
\* year in their series, also when a series holds several reports of it.
C26_LastRecordOfYear ==
  pc = "years" =>
    \A y \in attempted \ failed :
      /\ Cardinality(RowOf(y)) = 1
      /\ \A r \in RowOf(y) :
           /\ r.revenue = Some(revenueOf(LastReport(income, y)))
           /\ r.net_income = Some(netIncomeOf(LastReport(income, y)))
           /\ r.total_assets = Some(totalAssetsOf(LastReport(balance, y)))
           /\ r.total_liabilities = Some(totalLiabilitiesOf(LastReport(balance, y)))

\* C26 witness: both series held two reports of one year, of different
\* figures, and the loop ended with that year written.
C26_Witness ==
  /\ LoopEnded
  /\ \E y \in attempted \ failed :
       /\ Cardinality(ReportsOf(income, y)) = 2
       /\ Cardinality(ReportsOf(balance, y)) = 2
       /\ income.annualReports[1] # income.annualReports[2]
       /\ balance.annualReports[1] # balance.annualReports[2]

(***************************************************************************)
(* What a run leaves alone                                                 *)
(***************************************************************************)

\* The key the handler is about to upsert, if it stands before an upsert.
KeyInHand ==
  IF pc = "years" /\ pendingYears # <<>> /\ ~SkipsYear(Head(pendingYears))
  THEN {<<companyId, parseInt(Head(pendingYears))[1]>>}
  ELSE {}

\* C27: a step of /load leaves every financial_statements row in place and
\* unchanged, except the row of the key it upserts; rows of years outside
\* the window or without a balance report are among those it leaves.
C27_OtherKeysUntouched ==
  [][\A r \in statements : StatementKey(r) \notin KeyInHand => r \in statements']_vars

\* C27 witness: a run in the year after BaseYear has rewritten a company's
\* row of BaseYear - 2 with new figures, and the row of BaseYear - 3, now
\* outside the window, is the one the run found.
C27_Witness ==
  /\ LoopEnded
  /\ currentYear = BaseYear + 1
  /\ HasReport(income, BaseYear - 3)
  /\ (BaseYear - 2) \in attempted \ failed
  /\ RowOf(BaseYear - 2) \cap startStore[2] = {}
  /\ RowOf(BaseYear - 3) # {}
  /\ RowOf(BaseYear - 3) \subseteq startStore[2]

(***************************************************************************)
(* Statement rows and their company                                        *)
(***************************************************************************)

\* C28: every financial_statements row names the id of a companies row;
\* in the year loop the handler holds the id of the row of the company
\* being loaded; and a company upsert that throws writes no statement and
\* leads to the pause, from where the run goes on.
C28_RowsHaveTheirCompany ==
  [][/\ \A r \in statements' : \E c \in companies' : c.id = r.company_id
     /\ (pc' = "years" =>
          \E c \in companies' : c.id = companyId' /\ c.symbol = symbols[symIdx'])
     /\ (pc = "upsertCompany" /\ pc' # "years" =>
          /\ dbVars' = dbVars
          /\ pc' = "delay")
     /\ (pc = "upsertCompany" => statements' = statements)]_vars

\* C28 witness: on a store that was empty the company upsert of the second
\* symbol threw, it has no row of either table, and the third symbol has
\* ended its loop with a row written.
C28_Witness ==
  /\ LoopEnded
  /\ symIdx = 3
  /\ startStore[1] = {}
  /\ CompanyOf(companies, symbols[2]) = {}
  /\ CompanyOf(companies, symbols[1]) # {}
  /\ attempted \ failed # {}

=============================================================================
